---- MODULE Spec2Model ----
(***************************************************************************)
(* Multimodal jewelry search: query fusion, retrieval, reranking and       *)
(* result packaging (src/test-final.py, src/reranking.py).                 *)
(*                                                                         *)
(* Texts are sequences of Unicode code points, so that lower(), split(),   *)
(* substring tests, difflib matching and the label regex are computed      *)
(* character by character.  Scores are integers (initial_score in          *)
(* hundredths, rerank logits in units); fusion weights are in halves.      *)
(***************************************************************************)
EXTENDS Integers, Sequences, FiniteSets, TLC

\* Python's None in a str-typed place (no code point is negative), in a
\* score-typed place and in a top_k-typed place
None == <<-1>>
NoScore == -1000
NoTopK == -1

\* ------------------------------------------------------------------------
\* Bounds of the model
\* ------------------------------------------------------------------------
MaxRequests == 2

\* ------------------------------------------------------------------------
\* Python str primitives on code-point sequences
\* ------------------------------------------------------------------------
IsUpper(c) == c >= 65 /\ c <= 90
IsLowerCh(c) == c >= 97 /\ c <= 122
IsDigit(c) == c >= 48 /\ c <= 57
\* str.isspace for the ASCII range: \t \n \v \f \r, FS GS RS US, and space
IsSpace(c) == c \in {9, 10, 11, 12, 13, 28, 29, 30, 31, 32}
\* regex \w for the ASCII range
IsWord(c) == IsUpper(c) \/ IsLowerCh(c) \/ IsDigit(c) \/ c = 95

LowerCh(c) == IF IsUpper(c) THEN c + 32 ELSE c
UpperCh(c) == IF IsLowerCh(c) THEN c - 32 ELSE c

\* str.lower()
Lower(s) == [i \in 1..Len(s) |-> LowerCh(s[i])]

\* str.title(): a cased character is upper-cased when it follows an uncased
\* one (or starts the string) and lower-cased otherwise
Title(s) ==
  [i \in 1..Len(s) |->
     IF i = 1 \/ ~(IsUpper(s[i-1]) \/ IsLowerCh(s[i-1]))
     THEN UpperCh(s[i]) ELSE LowerCh(s[i])]

\* needle in haystack
Contains(needle, hay) ==
  \E i \in 1..(Len(hay) - Len(needle) + 1) :
     SubSeq(hay, i, i + Len(needle) - 1) = needle

\* str.startswith
StartsWith(s, p) == Len(s) >= Len(p) /\ SubSeq(s, 1, Len(p)) = p

RECURSIVE SplitFrom(_, _, _)
SplitFrom(s, i, cur) ==
  IF i > Len(s) THEN (IF cur = <<>> THEN <<>> ELSE <<cur>>)
  ELSE IF IsSpace(s[i])
       THEN (IF cur = <<>> THEN SplitFrom(s, i + 1, <<>>)
                            ELSE <<cur>> \o SplitFrom(s, i + 1, <<>>))
       ELSE SplitFrom(s, i + 1, Append(cur, s[i]))

\* str.split() with no argument: runs of whitespace separate, no empty token
Split(s) == SplitFrom(s, 1, <<>>)

RECURSIVE JoinFrom(_, _)
JoinFrom(ws, i) ==
  IF i > Len(ws) THEN <<>>
  ELSE IF i = Len(ws) THEN ws[i]
  ELSE ws[i] \o <<32>> \o JoinFrom(ws, i + 1)

\* " ".join(words)
Join(ws) == JoinFrom(ws, 1)

RECURSIVE LStrip(_)
LStrip(s) == IF s # <<>> /\ IsSpace(s[1]) THEN LStrip(Tail(s)) ELSE s

RECURSIVE RStrip(_)
RStrip(s) ==
  IF s # <<>> /\ IsSpace(s[Len(s)]) THEN RStrip(SubSeq(s, 1, Len(s) - 1)) ELSE s

\* str.strip()
Strip(s) == RStrip(LStrip(s))

\* lexicographic order of two strings (tuple comparison of heapq.nlargest)
RECURSIVE LexLess(_, _)
LexLess(a, b) ==
  IF b = <<>> THEN FALSE
  ELSE IF a = <<>> THEN TRUE
  ELSE IF a[1] # b[1] THEN a[1] < b[1]
  ELSE LexLess(Tail(a), Tail(b))

\* Python truthiness of a str-or-None value
Truthy(s) == s # None /\ s # <<>>

\* ------------------------------------------------------------------------
\* difflib.SequenceMatcher.ratio and difflib.get_close_matches
\* ------------------------------------------------------------------------
RECURSIVE RunLen(_, _, _, _, _, _)
RunLen(a, b, i, j, ahi, bhi) ==
  IF i <= ahi /\ j <= bhi /\ a[i] = b[j]
  THEN 1 + RunLen(a, b, i + 1, j + 1, ahi, bhi) ELSE 0

\* find_longest_match: the longest common block of a[alo..ahi], b[blo..bhi],
\* the earliest in a and then the earliest in b among the longest
find_longest_match(a, b, alo, ahi, blo, bhi) ==
  LET blocks == {<<i, j>> : i \in alo..ahi, j \in blo..bhi}
      len(p) == RunLen(a, b, p[1], p[2], ahi, bhi)
      best == CHOOSE p \in blocks :
                \A q \in blocks :
                   \/ len(p) > len(q)
                   \/ /\ len(p) = len(q)
                      /\ \/ p[1] < q[1]
                         \/ p[1] = q[1] /\ p[2] <= q[2]
  IN <<best[1], best[2], len(best)>>

\* sum of the sizes of get_matching_blocks(): the longest block m, then the
\* blocks to its left and to its right
RECURSIVE MatchCount(_, _, _, _, _, _)
RECURSIVE MatchAround(_, _, _, _, _, _, _)
MatchAround(a, b, alo, ahi, blo, bhi, m) ==
  IF m[3] = 0 THEN 0
  ELSE m[3]
       + MatchCount(a, b, alo, m[1] - 1, blo, m[2] - 1)
       + MatchCount(a, b, m[1] + m[3], ahi, m[2] + m[3], bhi)

MatchCount(a, b, alo, ahi, blo, bhi) ==
  IF alo > ahi \/ blo > bhi THEN 0
  ELSE MatchAround(a, b, alo, ahi, blo, bhi,
                   find_longest_match(a, b, alo, ahi, blo, bhi))

\* ratio() = 2.0*M/T as the pair <<2M, T>>
Ratio(a, b) == <<2 * MatchCount(a, b, 1, Len(a), 1, Len(b)), Len(a) + Len(b)>>

\* ratio >= cutoff, the cutoff given in tenths
RatioAtLeast(r, cutoff10) == r[2] = 0 \/ 10 * r[1] >= cutoff10 * r[2]

\* get_close_matches(word, possibilities, n=1, cutoff): the best-scoring
\* possibility x with SequenceMatcher(a=x, b=word).ratio() >= cutoff, the
\* larger string winning a tie of scores; <<>> when there is none
best_match(possibilities, ratios, cutoff10) ==
  LET ok == {k \in 1..Len(possibilities) : RatioAtLeast(ratios[k], cutoff10)}
      better(x, y) ==
        \/ ratios[x][1] * ratios[y][2] > ratios[y][1] * ratios[x][2]
        \/ /\ ratios[x][1] * ratios[y][2] = ratios[y][1] * ratios[x][2]
           /\ ~LexLess(possibilities[x], possibilities[y])
  IN IF ok = {} THEN <<>>
     ELSE <<possibilities[CHOOSE x \in ok : \A y \in ok : better(x, y)]>>

get_close_matches(word, possibilities, cutoff10) ==
  best_match(possibilities,
             [k \in 1..Len(possibilities) |-> Ratio(possibilities[k], word)],
             cutoff10)

\* ------------------------------------------------------------------------
\* Config
\* ------------------------------------------------------------------------
JEWELRY_VOCAB ==
  << <<107, 117, 110, 100, 97, 110>>,                       \* kundan
     <<112, 111, 108, 107, 105>>,                           \* polki
     <<109, 101, 101, 110, 97, 107, 97, 114, 105>>,         \* meenakari
     <<106, 104, 117, 109, 107, 97>>,                       \* jhumka
     <<116, 101, 109, 112, 108, 101>>,                      \* temple
     <<97, 110, 116, 105, 113, 117, 101>>,                  \* antique
     <<103, 111, 108, 100>>,                                \* gold
     <<115, 105, 108, 118, 101, 114>>,                      \* silver
     <<100, 105, 97, 109, 111, 110, 100>>,                  \* diamond
     <<114, 117, 98, 121>>,                                 \* ruby
     <<101, 109, 101, 114, 97, 108, 100>>,                  \* emerald
     <<110, 101, 99, 107, 108, 97, 99, 101>>,               \* necklace
     <<101, 97, 114, 114, 105, 110, 103, 115>>,             \* earrings
     <<98, 97, 110, 103, 108, 101, 115>>,                   \* bangles
     <<98, 114, 97, 99, 101, 108, 101, 116>>,               \* bracelet
     <<112, 101, 110, 100, 97, 110, 116>>,                  \* pendant
     <<99, 104, 111, 107, 101, 114>>,                       \* choker
     <<109, 97, 110, 103, 97, 108, 115, 117, 116, 114, 97>>, \* mangalsutra
     <<109, 97, 97, 110, 103, 116, 105, 107, 107, 97>>,     \* maangtikka
     <<110, 111, 115, 101, 112, 105, 110>>,                 \* nosepin
     <<114, 105, 110, 103>>,                                \* ring
     <<115, 116, 117, 100, 115>> >>                         \* studs

\* ------------------------------------------------------------------------
\* LanguageHandler
\* ------------------------------------------------------------------------
\* every matching word replaced by the title-cased term
corrected_word_titled(word, matches) ==
  IF matches # <<>> THEN Title(matches[1]) ELSE word

\* lines 87-92: the word appended for word, given its matches
corrected_word(word, matches) ==
  IF matches # <<>>
  THEN (IF Lower(word) # matches[1] THEN Title(matches[1]) ELSE word)
  ELSE word

correct_word(word) ==
  corrected_word(word, get_close_matches(Lower(word), JEWELRY_VOCAB, 8))

correct_english_typos(text) ==
  LET words == Split(text)
  IN Join([i \in 1..Len(words) |-> correct_word(words[i])])

\* line 98: some token of text.lower() is within 0.7 of a vocabulary term
force_english(text) ==
  LET words == Split(Lower(text))
  IN \E i \in 1..Len(words) :
        get_close_matches(words[i], JEWELRY_VOCAB, 7) # <<>>

\* The texts of the model: queries, transcripts, translations, captions
GoldRing == <<103, 111, 108, 100, 32, 114, 105, 110, 103>>
SilverRing == <<115, 105, 108, 118, 101, 114, 32, 114, 105, 110, 103>>
DiamondRing == <<100, 105, 97, 109, 111, 110, 100, 32, 114, 105, 110, 103>>
SoneKaHaar == <<115, 111, 110, 101, 32, 107, 97, 32, 104, 97, 97, 114>>
GoldNecklace == <<103, 111, 108, 100, 32, 110, 101, 99, 107, 108, 97, 99, 101>>
AGoldRing == <<97, 32, 103, 111, 108, 100, 32, 114, 105, 110, 103>>
APlainRing == <<97, 32, 112, 108, 97, 105, 110, 32, 114, 105, 110, 103>>

GolldRing == <<103, 111, 108, 108, 100, 32, 114, 105, 110, 103>>
GoldRingT == <<71, 111, 108, 100, 32, 114, 105, 110, 103>>
GoldenNecklace ==
  <<103, 111, 108, 100, 101, 110, 32, 110, 101, 99, 107, 108, 97, 99, 101>>
GoldNecklaceT == <<71, 111, 108, 100, 32, 110, 101, 99, 107, 108, 97, 99, 101>>
Haar == <<104, 97, 97, 114>>
ChandiKangan == <<99, 104, 97, 110, 100, 105, 32, 107, 97, 110, 103, 97, 110>>
PlainChain == <<112, 108, 97, 105, 110, 32, 99, 104, 97, 105, 110>>
MotiMala == <<109, 111, 116, 105, 32, 109, 97, 108, 97>>
SadaHaar == <<115, 97, 100, 97, 32, 104, 97, 97, 114>>

GoldSilverRing ==                              \* "gold silver ring"
  <<103, 111, 108, 100, 32, 115, 105, 108, 118, 101, 114, 32, 114, 105, 110, 103>>

Texts == {<<>>, GoldRing, SilverRing, DiamondRing, SoneKaHaar, GoldNecklace,
          AGoldRing, APlainRing, GolldRing, GoldRingT, GoldenNecklace,
          GoldNecklaceT, Haar, ChandiKangan, PlainChain, MotiMala, SadaHaar,
          GoldSilverRing}

\* the two methods tabulated over Texts, so that each text is matched
\* against the vocabulary once
typos_of == [t \in Texts |-> correct_english_typos(t)]
forced_of == [t \in Texts |-> force_english(t)]

\* detected: the outcome of langdetect.detect ("en", another language code,
\* or "LangDetectException"); translated: what sarvam_fn(text) returns
process_query(text, detected, translated) ==
  LET lang == IF forced_of[text] \/ Len(text) < 5 THEN "en"
              ELSE IF detected = "LangDetectException" THEN "en"
              ELSE detected
  IN IF lang = "en" THEN typos_of[text] ELSE translated

\* ------------------------------------------------------------------------
\* Generic list helpers (Python slices, sorted, os.path)
\* ------------------------------------------------------------------------
Min(a, b) == IF a <= b THEN a ELSE b

\* seq[:k] for k >= 0
Take(seq, k) == SubSeq(seq, 1, Min(k, Len(seq)))

\* insertion of x before the elements of equal key: an unstable sort
RECURSIVE InsertDescUnstable(_, _)
InsertDescUnstable(sorted, x) ==
  IF sorted = <<>> THEN <<x>>
  ELSE IF sorted[1].rerank_score > x.rerank_score
       THEN <<sorted[1]>> \o InsertDescUnstable(Tail(sorted), x)
       ELSE <<x>> \o sorted

\* insertion of x behind every element whose key is >= key(x): the place a
\* stable descending sort gives to an element that came later in the input
RECURSIVE InsertDesc(_, _)
InsertDesc(sorted, x) ==
  IF sorted = <<>> THEN <<x>>
  ELSE IF sorted[1].rerank_score >= x.rerank_score
       THEN <<sorted[1]>> \o InsertDesc(Tail(sorted), x)
       ELSE <<x>> \o sorted

RECURSIVE SortedFrom(_, _, _)
SortedFrom(seq, i, acc) ==
  IF i > Len(seq) THEN acc ELSE SortedFrom(seq, i + 1, InsertDesc(acc, seq[i]))

\* the candidates left in retrieval order
left_unsorted(candidates) == candidates

\* sorted(candidates, key=lambda x: x['rerank_score'], reverse=True):
\* descending by key, equal keys in their input order (reverse keeps stability)
sorted_by_rerank_score_reverse(candidates) == SortedFrom(candidates, 1, <<>>)

RECURSIVE LastIndexOf(_, _, _)
LastIndexOf(s, ch, i) ==
  IF i = 0 THEN 0 ELSE IF s[i] = ch THEN i ELSE LastIndexOf(s, ch, i - 1)

\* os.path.basename
basename(p) == SubSeq(p, LastIndexOf(p, 47, Len(p)) + 1, Len(p))

\* os.path.splitext(p)[1]: from the last dot of the last component, unless
\* that dot begins the component
splitext_ext(p) ==
  LET b == basename(p)
      d == LastIndexOf(b, 46, Len(b))
  IN IF d <= 1 THEN <<>> ELSE SubSeq(b, d, Len(b))

\* ------------------------------------------------------------------------
\* Reranker (src/reranking.py) and the dummy fallback (src/test-final.py)
\* ------------------------------------------------------------------------
\* How self.reranker came out of construction
RerankerKinds == {"loaded", "load_failed", "dummy"}

batch_size == 16

\* every batch scored as if it were the first one
ScoreBatchesFromStart(pairs, logit, i) ==
  [k \in 1..Len(pairs) |-> logit[((k - 1) % batch_size) + 1]]

\* compute_score: the logits of the pairs, batch after batch; logit[i] is the
\* cross-encoder's output for pair i
RECURSIVE ScoreBatches(_, _, _)
ScoreBatches(pairs, logit, i) ==
  IF i > Len(pairs) THEN <<>>
  ELSE LET hi == Min(i + batch_size - 1, Len(pairs))
       IN [k \in 1..(hi - i + 1) |-> logit[i + k - 1]]
          \o ScoreBatches(pairs, logit, i + batch_size)

compute_score(kind, pairs, logit) ==
  IF kind # "loaded" THEN <<>> ELSE ScoreBatches(pairs, logit, 1)

\* Python truthiness of top_k (None and 0 are falsy)
TopKTruthy(top_k) == top_k # NoTopK /\ top_k # 0

\* candidates[:top_k] if top_k else candidates
Passthrough(candidates, top_k) ==
  IF TopKTruthy(top_k) THEN Take(candidates, top_k) ELSE candidates

\* rerank: the returned list, and the candidate objects as the call leaves
\* them (rerank_score is attached in place to the caller's dicts)
rerank(kind, query, candidates, top_k, logit) ==
  IF kind = "dummy"
  THEN [result |-> Passthrough(candidates, top_k), candidates |-> candidates]
  ELSE IF kind # "loaded" \/ candidates = <<>>
  THEN [result |-> Passthrough(candidates, top_k), candidates |-> candidates]
  ELSE LET pairs == [i \in 1..Len(candidates) |->
                       <<query, candidates[i].semantic_description>>]
           scores == compute_score(kind, pairs, logit)
           scored == [i \in 1..Len(candidates) |->
                        [candidates[i] EXCEPT !.rerank_score = scores[i]]]
           ranked == sorted_by_rerank_score_reverse(scored)
       IN [result |-> IF TopKTruthy(top_k) THEN Take(ranked, top_k) ELSE ranked,
           candidates |-> scored]

\* ------------------------------------------------------------------------
\* Result packager
\* ------------------------------------------------------------------------
\* The assets of the catalogue that exist on disk (os.path.exists(src_path))
P1Path == <<112, 49, 46, 106, 112, 103>>     \* "p1.jpg"
P2Path == <<112, 50, 46, 106, 112, 103>>     \* "p2.jpg"
P3Path == <<112, 51, 46, 106, 112, 103>>     \* "p3.jpg"
P4Path == <<112, 52, 46, 106, 112, 103>>     \* "p4.jpg"
ExistingAssets == {P1Path, P3Path, P4Path}

\* the assets for which shutil.copy2 raises (line 250), caught at line 251
UncopyableAssets == {P4Path}

\* the score choice without the force_initial switch
ScoreOfUnforced(res, force_initial) ==
  IF res.rerank_score # NoScore THEN res.rerank_score ELSE res.initial_score

\* lines 236-239
ScoreOf(res, force_initial) ==
  IF force_initial THEN res.initial_score
  ELSE IF res.rerank_score # NoScore THEN res.rerank_score
  ELSE res.initial_score

\* a packager that gives up at the first result it cannot copy
save_results_to_folder_aborting(results, prefix, force_initial) ==
  LET ok(j) == results[j].path \in ExistingAssets \ UncopyableAssets
      done == {i \in 1..Len(results) : \A j \in 1..i : ok(j)}
  IN [saved_items |-> [i \in done |->
                         [rank |-> i,
                          score |-> ScoreOf(results[i], force_initial),
                          product_id |-> results[i].product_id,
                          path |-> results[i].path]],
      files |-> {[rank |-> i, prefix |-> prefix,
                  score |-> ScoreOf(results[i], force_initial),
                  product_id |-> results[i].product_id,
                  ext |-> splitext_ext(results[i].path)] : i \in done}]

\* save_results_to_folder: saved_items, and the files the folder holds after
\* rmtree + makedirs + the copies
save_results_to_folder(results, prefix, force_initial) ==
  LET item(i) == [rank |-> i,
                  score |-> ScoreOf(results[i], force_initial),
                  product_id |-> results[i].product_id,
                  path |-> results[i].path]
      name(i) == [rank |-> i, prefix |-> prefix,
                  score |-> ScoreOf(results[i], force_initial),
                  product_id |-> results[i].product_id,
                  ext |-> splitext_ext(results[i].path)]
  IN [saved_items |-> [i \in 1..Len(results) |-> item(i)],
      files |-> {name(i) : i \in {j \in 1..Len(results) :
                                     results[j].path \in ExistingAssets
                                                          \ UncopyableAssets}}]

\* line 357: re.sub(r'[^\w\s-]', '', label).strip().replace(' ', '_').lower()
safe_query_of(label) ==
  LET kept == SelectSeq(label, LAMBDA c : IsWord(c) \/ IsSpace(c) \/ c = 45)
      stripped == Strip(kept)
  IN Lower([i \in 1..Len(stripped) |->
              IF stripped[i] = 32 THEN 95 ELSE stripped[i]])

\* all_results[query] = metadata
DictSet(d, k, v) == [x \in DOMAIN d \cup {k} |-> IF x = k THEN v ELSE d[x]]

EmptyDict == [x \in {} |-> 0]

\* ------------------------------------------------------------------------
\* Signal fusion
\* ------------------------------------------------------------------------
MATERIALS ==
  << <<103, 111, 108, 100>>,                         \* gold
     <<115, 105, 108, 118, 101, 114>>,               \* silver
     <<112, 108, 97, 116, 105, 110, 117, 109>>,      \* platinum
     <<100, 105, 97, 109, 111, 110, 100>> >>         \* diamond

\* the literal list ["silver", "gold", "platinum"] of line 309
CONFLICT_METALS ==
  { <<115, 105, 108, 118, 101, 114>>, <<103, 111, 108, 100>>,
    <<112, 108, 97, 116, 105, 110, 117, 109>> }

\* [m for m in ["gold", "silver", "platinum", "diamond"] if m in text.lower()]
materials_in(text) == SelectSeq(MATERIALS, LAMBDA m : Contains(m, Lower(text)))

Elems(seq) == {seq[i] : i \in 1..Len(seq)}

\* a conflict rule that never fires
has_conflict_never(user_materials, ai_materials) == FALSE

\* line 309
has_conflict(user_materials, ai_materials) ==
  \E um \in Elems(user_materials) :
     /\ um \in CONFLICT_METALS
     /\ \E am \in Elems(ai_materials) : am \in CONFLICT_METALS /\ am # um

\* Embeddings are unit vectors of the plane with integer coordinates
UnitVecs == << <<1, 0>>, <<0, 1>>, <<-1, 0>>, <<0, -1>> >>

RECURSIVE SumCodes(_)
SumCodes(s) == IF s = <<>> THEN 0 ELSE s[1] + SumCodes(Tail(s))

\* a pooler output that is not normalized and vanishes
get_text_embedding_zero(text) == <<0, 0>>

\* get_text_embedding: a fixed function of the text (the loaded weights)
get_text_embedding(text) == UnitVecs[(SumCodes(text) % 4) + 1]

\* get_image_embedding: a fixed function of the pixels; an image is
\* [id, cropped]
get_image_embedding(image) ==
  IF image.cropped THEN UnitVecs[2] ELSE UnitVecs[1]

Abs(x) == IF x < 0 THEN -x ELSE x

RECURSIVE Gcd(_, _)
Gcd(a, b) == IF b = 0 THEN a ELSE Gcd(b, a % b)

RECURSIVE WeightedSum(_, _)
WeightedSum(weighted_embs, i) ==
  IF i > Len(weighted_embs) THEN <<0, 0>>
  ELSE LET r == WeightedSum(weighted_embs, i + 1)
           e == weighted_embs[i]
       IN <<e.emb[1] * e.weight2 + r[1], e.emb[2] * e.weight2 + r[2]>>

RECURSIVE TotalWeight(_, _)
TotalWeight(weighted_embs, i) ==
  IF i > Len(weighted_embs) THEN 0
  ELSE weighted_embs[i].weight2 + TotalWeight(weighted_embs, i + 1)

\* no normalized vector: a zero vector divides 0 by 0 and numpy yields nan
NaNVec == <<0, 0>>

\* v / np.linalg.norm(v) for the rational vector v = (x/d, y/d) given as
\* <<x, y, d>>.  A unit vector of the plane is given by its direction, an
\* integer vector in lowest terms.
normalized(v) ==
  IF v[3] = 0 \/ (v[1] = 0 /\ v[2] = 0) THEN NaNVec
  ELSE IF v[3] > 0
  THEN <<v[1] \div Gcd(Abs(v[1]), Abs(v[2])), v[2] \div Gcd(Abs(v[1]), Abs(v[2]))>>
  ELSE <<(-v[1]) \div Gcd(Abs(v[1]), Abs(v[2])), (-v[2]) \div Gcd(Abs(v[1]), Abs(v[2]))>>

\* the first signal's direction, whatever the others are
fuse_first(weighted_embs) == weighted_embs[1].emb

\* lines 322-327.  Weights are carried in halves (weight2 = 2 * weight), so
\* the weighted sum and the total weight are integers: final_emb /
\* total_weight is the rational vector sum2 / total2, which line 327 divides
\* by its norm.
fuse(weighted_embs) ==
  normalized(<<WeightedSum(weighted_embs, 1)[1], WeightedSum(weighted_embs, 1)[2],
               TotalWeight(weighted_embs, 1)>>)

\* ------------------------------------------------------------------------
\* Files on disk and external collaborators
\* ------------------------------------------------------------------------
IMAGE_BASE_DIR ==
  <<47, 119, 111, 114, 107, 115, 112, 97, 99, 101, 47, 109, 117, 108, 116,
    105, 109, 111, 100, 97, 108, 45, 100, 97, 116, 97, 115, 101, 116, 47>>

AJpg == <<97, 46, 106, 112, 103>>            \* "a.jpg", an image on disk
XJpg == <<120, 46, 106, 112, 103>>           \* "x.jpg", not on disk
VMp3 == <<118, 46, 109, 112, 51>>            \* "v.mp3", an audio clip on disk
Http == <<104, 116, 116, 112>>               \* "http"
UrlU == <<104, 116, 116, 112, 58, 47, 47, 117>>   \* "http://u"

\* os.path.exists for the query-side files
ExistingFiles == {AJpg, VMp3}
\* the files Image.open can decode
ReadableImages == {AJpg}

NoImage == [id |-> "none", cropped |-> FALSE]
NoInput == [kind |-> "none", path |-> None, image |-> NoImage]
PathInput(p) == [kind |-> "str", path |-> p, image |-> NoImage]
ImageInput(img) == [kind |-> "image", path |-> None, image |-> img]

\* truthiness of image_input: None and "" are falsy, an Image is truthy
InputTruthy(image_input) ==
  \/ image_input.kind = "image"
  \/ image_input.kind = "str" /\ image_input.path # <<>>

\* sarvam_translate (lines 149-157): resp is what the HTTP call produced
sarvam_translate(text, resp) ==
  IF resp.kind = "exception" THEN text            \* post or .json() raised
  ELSE IF ~resp.has_key THEN text                 \* .get default
  ELSE resp.translated_text                       \* may be None (JSON null)

\* a detect_and_describe that gives up the crop but keeps the description
\* when the bbox is malformed
detect_and_describe_keeping_desc(flag, gemini, image, resp) ==
  IF ~gemini \/ resp.kind # "json" \/ flag # "DOTALL"
  THEN [image |-> image, desc |-> None]
  ELSE [image |-> [image EXCEPT !.cropped = (resp.bbox = "ok")],
        desc |-> resp.description]

\* detect_and_describe (lines 194-206).  flag is the attribute of module re
\* that line 199 names: "DOTEXT" in src/test-final.py, which re does not
\* have, so that evaluating it raises AttributeError inside the try;
\* "DOTALL" in src/test_new.py line 79.
detect_and_describe(flag, gemini, image, resp) ==
  IF ~gemini THEN [image |-> image, desc |-> None]
  ELSE IF resp.kind = "exception" THEN [image |-> image, desc |-> None]
  ELSE IF flag # "DOTALL" THEN [image |-> image, desc |-> None]
  ELSE IF resp.kind # "json" THEN [image |-> image, desc |-> None]
  ELSE IF resp.bbox = "bad" THEN [image |-> image, desc |-> None]
  ELSE IF resp.bbox = "ok"
       THEN [image |-> [image EXCEPT !.cropped = TRUE], desc |-> resp.description]
       ELSE [image |-> image, desc |-> resp.description]

\* ------------------------------------------------------------------------
\* UnifiedJewelrySearcher.search, lines 262-327: the signal set and fusion
\* ------------------------------------------------------------------------
Signal(prov, emb, weight2) == [prov |-> prov, emb |-> emb, weight2 |-> weight2]

NoFusion ==
  [raised |-> FALSE, label |-> None, final_query_text |-> <<>>,
   ai_desc |-> None, ai_materials |-> <<>>, user_materials |-> <<>>,
   conflict |-> FALSE, weighted_embs |-> <<>>, final_emb |-> NaNVec,
   embedded |-> NoImage]

\* a label without the "image_search" default (src/test_new.py:112-117)
label_of_no_default(text_query, image_input) ==
  IF InputTruthy(image_input) /\ image_input.kind = "str" /\ ~Truthy(text_query)
  THEN basename(image_input.path)
  ELSE text_query

\* lines 264 and 273
label_of(text_query, image_input) ==
  IF InputTruthy(image_input) /\ image_input.kind = "str"
  THEN (IF ~Truthy(text_query) THEN basename(image_input.path) ELSE text_query)
  ELSE IF Truthy(text_query) THEN text_query
  ELSE <<105, 109, 97, 103, 101, 95, 115, 101, 97, 114, 99, 104>>

\* lines 274-277: Image.open raises for a path it cannot read
open_fails(image_input) ==
  /\ InputTruthy(image_input) /\ image_input.kind = "str"
  /\ (IF image_input.path \notin ExistingFiles /\ ~StartsWith(image_input.path, Http)
      THEN IMAGE_BASE_DIR \o image_input.path
      ELSE image_input.path) \notin ReadableImages

\* lines 277-281: the image handed to detect_and_describe, and its answer
described(flag, gemini, image_input, desc_resp) ==
  IF InputTruthy(image_input)
  THEN detect_and_describe(flag, gemini,
                           IF image_input.kind = "str"
                           THEN [id |-> "file", cropped |-> FALSE]
                           ELSE image_input.image,
                           desc_resp)
  ELSE [image |-> NoImage, desc |-> None]

\* a text weight of 2.0 whatever the request
text_weight2_flat(has_image) == 4

\* line 303, in halves: text_weight = 3.0 if image_input else 2.0
text_weight2(has_image) == IF has_image THEN 6 ELSE 4

\* lines 282-327 given the caption dd.desc, its normalisation norm_desc and
\* the processed text (None when process_query returned no string)
fused_signals(text_query, image_input, label, dd, norm_desc, processed_text) ==
  LET has_text == Truthy(text_query)
      has_image == InputTruthy(image_input)
      has_desc == has_image /\ Truthy(dd.desc)
      ai_materials == IF has_desc THEN materials_in(norm_desc) ELSE <<>>
      user_materials == IF has_text THEN materials_in(processed_text) ELSE <<>>
      img_sig == IF has_image
                 THEN <<Signal("image", get_image_embedding(dd.image), 2)>>
                 ELSE <<>>
      txt_sig == IF has_text
                 THEN <<Signal("text", get_text_embedding(processed_text),
                               text_weight2(has_image))>>
                 ELSE <<>>
      ai_desc_emb_data == Signal("ai_desc", get_text_embedding(norm_desc), 1)
      conflict == has_desc /\ user_materials # <<>>
                  /\ has_conflict(user_materials, ai_materials)
      ai_sig == IF has_desc /\ ~conflict THEN <<ai_desc_emb_data>> ELSE <<>>
  IN [raised |-> FALSE, label |-> label,
      final_query_text |-> processed_text,
      ai_desc |-> IF has_image THEN dd.desc ELSE None,
      ai_materials |-> ai_materials, user_materials |-> user_materials,
      conflict |-> conflict, weighted_embs |-> img_sig \o txt_sig \o ai_sig,
      final_emb |-> IF img_sig \o txt_sig \o ai_sig = <<>> THEN NaNVec
                    ELSE fuse(img_sig \o txt_sig \o ai_sig),
      embedded |-> dd.image]

\* lines 262-327 given the answers of the services the call reaches; the
\* tokenizer raises when process_query hands it None
signals_of(text_query, image_input, label, raises, dd, processed_text) ==
  IF raises \/ (Truthy(text_query) /\ processed_text = None)
  THEN [NoFusion EXCEPT !.raised = TRUE, !.label = label]
  ELSE fused_signals(text_query, image_input, label, dd,
                     IF InputTruthy(image_input) /\ Truthy(dd.desc)
                     THEN typos_of[dd.desc] ELSE <<>>,
                     processed_text)

search_signals(flag, gemini, text_query, image_input, desc_resp, detected, tr_resp) ==
  signals_of(text_query, image_input,
             label_of(text_query, image_input),
             open_fails(image_input),
             described(flag, gemini, image_input, desc_resp),
             IF Truthy(text_query)
             THEN process_query(text_query, detected,
                                sarvam_translate(text_query, tr_resp))
             ELSE <<>>)

\* ------------------------------------------------------------------------
\* UnifiedJewelrySearcher.search, lines 329-354: retrieval and reranking
\* ------------------------------------------------------------------------
\* lines 337-344; a payload without semantic_description yields ''
embedding_results_of(points) ==
  [i \in 1..Len(points) |->
     [product_id |-> points[i].product_id,
      path |-> points[i].path,
      semantic_description |-> points[i].semantic_description,
      initial_score |-> points[i].score,
      rerank_score |-> NoScore]]

\* line 347
rerank_query_of(fusion) ==
  IF Truthy(fusion.final_query_text) THEN fusion.final_query_text
  ELSE IF Truthy(fusion.ai_desc) THEN fusion.ai_desc
  ELSE <<>>

\* lines 346-354: the reranked list and the retrieved candidates as the
\* call leaves them
search_rerank(kind, rerank_query, embedding_results, rerank_top_k, logit) ==
  IF embedding_results # <<>> /\ rerank_query # <<>>
  THEN rerank(kind, rerank_query, embedding_results, rerank_top_k, logit)
  ELSE [result |-> Take(embedding_results, rerank_top_k),
        candidates |-> embedding_results]

\* ------------------------------------------------------------------------
\* The output directory
\* ------------------------------------------------------------------------
EmbFolder(safe_query) == <<safe_query, "embedding_only">>
RankFolder(safe_query) == <<safe_query, "reranked">>

\* rmtree + makedirs + copies: the folder exists and holds exactly files
WriteFolder(d, folder, files) ==
  [f \in DOMAIN d \cup {folder} |-> IF f = folder THEN files ELSE d[f]]

\* exists/valid/obj: whether the file is there, whether it parses, and the
\* object it parses to; open_by: the workers holding it open for writing;
\* clobbered: those of them under whose handle another handle has written
AbsentFile ==
  [exists |-> FALSE, valid |-> FALSE, obj |-> EmptyDict,
   open_by |-> {}, clobbered |-> {}]

\* an update that starts from an empty map whatever the file holds
json_load_nothing(file) == EmptyDict

\* lines 385-389: all_results after the guarded json.load
json_load(file) == IF file.exists /\ file.valid THEN file.obj ELSE EmptyDict

\* line 391, open(json_path, 'w') by worker w: the file exists and is empty
open_w(file, w) ==
  [exists |-> TRUE, valid |-> FALSE, obj |-> EmptyDict,
   open_by |-> file.open_by \cup {w}, clobbered |-> file.clobbered]

\* line 391, json.dump and close by worker w: the text goes to offset 0 of
\* the file.  intact tells whether what results parses: it does unless a
\* longer text written under another handle since w opened sticks out
json_dump(file, w, all_results, intact) ==
  [exists |-> TRUE,
   valid |-> intact,
   obj |-> IF intact THEN all_results ELSE EmptyDict,
   open_by |-> file.open_by \ {w},
   clobbered |-> (file.clobbered \cup file.open_by) \ {w}]

\* the outcomes of the dump that the file sizes decide
Intactness(file, w) == IF w \in file.clobbered THEN BOOLEAN ELSE {TRUE}

\* update_json_results run without interruption
update_json_results(file, w, query, metadata) ==
  json_dump(open_w(file, w), w, DictSet(json_load(file), query, metadata), TRUE)

\* ------------------------------------------------------------------------
\* State
\* ------------------------------------------------------------------------
VARIABLES
  pc,          \* where each worker stands
  loc,         \* the values of each worker's current or last search call
  searcher,    \* what __init__ built: reranker kind, gemini, the collection
  flag,        \* the re attribute detect_and_describe names (line 199)
  nreq,        \* commands and calls handled so far
  dirs,        \* OUTPUT_DIR: folder -> the files in it
  jsonFile,    \* OUTPUT_DIR/search_results.json
  written,     \* label -> the metadata last handed to update_json_results
  rr,          \* a direct call of Reranker.rerank and its result
  upd,         \* the locals of each worker's update_json_results call
  unit         \* a direct call of one method: its arguments and what it gave

vars == <<pc, loc, searcher, flag, nreq, dirs, jsonFile, written, rr, upd, unit>>

Workers == {"w1", "w2"}

\* ------------------------------------------------------------------------
\* Inputs and the answers of the external services
\* ------------------------------------------------------------------------
UrlImage == [id |-> "url", cropped |-> FALSE]

\* the answers of gemini.generate_content
DescResponses ==
  { [kind |-> "exception", bbox |-> "none", description |-> None],
    [kind |-> "no_json", bbox |-> "none", description |-> None],
    [kind |-> "json", bbox |-> "ok", description |-> AGoldRing],
    [kind |-> "json", bbox |-> "ok", description |-> APlainRing],
    [kind |-> "json", bbox |-> "none", description |-> AGoldRing],
    [kind |-> "json", bbox |-> "ok", description |-> None],
    [kind |-> "json", bbox |-> "bad", description |-> AGoldRing] }
NoDescResponse == [kind |-> "exception", bbox |-> "none", description |-> None]

\* the outcomes of langdetect.detect
Detected == {"en", "hi", "LangDetectException"}

\* the answers of the translation endpoint
TranslateResponses ==
  { [kind |-> "exception", has_key |-> FALSE, translated_text |-> None],
    [kind |-> "json", has_key |-> FALSE, translated_text |-> None],
    [kind |-> "json", has_key |-> TRUE, translated_text |-> None],
    [kind |-> "json", has_key |-> TRUE, translated_text |-> GoldNecklace] }
NoTranslateResponse ==
  [kind |-> "exception", has_key |-> FALSE, translated_text |-> None]

\* the catalogue behind the collection: P1 with a description and an asset
\* on disk, P2 without a semantic_description and without its asset, the
\* others sharing one asset and one description
Point(id, score) ==
  IF id = "P1"
  THEN [product_id |-> "P1", path |-> P1Path,
        semantic_description |-> GoldRing, score |-> score]
  ELSE IF id = "P2"
  THEN [product_id |-> "P2", path |-> P2Path,
        semantic_description |-> <<>>, score |-> score]
  ELSE [product_id |-> id, path |-> P3Path,
        semantic_description |-> SilverRing, score |-> score]

\* cross-encoder logits
RerankScores == {-1, 2}

\* what query_points can return: distinct points, best score first
PointLists ==
  { <<>>,
    <<Point("P1", 90), Point("P2", 50)>>,
    <<Point("P2", 90), Point("P1", 90)>> }

\* the outcomes of client.query_points with the given limit
QueryOutcomes(collection, limit) ==
  IF ~collection
  THEN {[kind |-> "not_found", points |-> <<>>]}
  ELSE {[kind |-> "other_error", points |-> <<>>]}
       \cup {[kind |-> "ok", points |-> pl] :
               pl \in {l \in PointLists : Len(l) <= limit}}

Logits(n) == [1..n -> RerankScores]

\* ------------------------------------------------------------------------
\* One call of search (lines 262-381)
\* ------------------------------------------------------------------------
NoCall ==
  [out |-> "none", cause |-> "none", text_query |-> None, image_input |-> NoInput,
   rerank_top_k |-> NoTopK, desc_resp |-> NoDescResponse, detected |-> "en",
   tr_resp |-> NoTranslateResponse, fusion |-> NoFusion, safe_query |-> <<>>,
   rerank_query |-> <<>>, retrieved |-> <<>>, embedding_results |-> <<>>,
   reranked_results |-> <<>>, emb_metadata |-> <<>>, rank_metadata |-> <<>>]

\* lines 329-368 for a non-empty signal set: qr is the outcome of
\* query_points, logit the cross-encoder's outputs
packaged(base, embedding_results, rk) ==
  [base EXCEPT !.out = "complete",
               !.safe_query = safe_query_of(base.fusion.label),
               !.rerank_query = rerank_query_of(base.fusion),
               !.retrieved = embedding_results,
               !.embedding_results = rk.candidates,
               !.reranked_results = rk.result,
               !.emb_metadata =
                 save_results_to_folder(rk.candidates, "dist", TRUE).saved_items,
               !.rank_metadata =
                 save_results_to_folder(rk.result, "score", FALSE).saved_items]

search_tail(srch, base, qr, logit) ==
  IF qr.kind # "ok"
  THEN [base EXCEPT !.out = "collection_not_found_msg", !.cause = qr.kind]
  ELSE packaged(base, embedding_results_of(qr.points),
                search_rerank(srch.reranker, rerank_query_of(base.fusion),
                              embedding_results_of(qr.points),
                              base.rerank_top_k, logit))

\* lines 366-368: what the two save_results_to_folder calls leave on disk
package_dirs(d, call) ==
  LET emb == save_results_to_folder(call.embedding_results, "dist", TRUE)
      rank == save_results_to_folder(call.reranked_results, "score", FALSE)
  IN WriteFolder(WriteFolder(d, EmbFolder(call.safe_query), emb.files),
                 RankFolder(call.safe_query), rank.files)

\* lines 371-374: the metadata handed to update_json_results
metadata_of(call) ==
  [embedding_only |-> call.emb_metadata, reranked |-> call.rank_metadata]

\* detection that only a short text escapes
NeedsDetectLong(text_query) == Truthy(text_query) /\ Len(text_query) >= 5

\* which services a call reaches.  Lines 100-104: detect is called unless a
\* token matched the vocabulary or the text is shorter than 5
NeedsDetect(text_query) ==
  Truthy(text_query) /\ ~forced_of[text_query] /\ Len(text_query) >= 5

\* lines 108-117: sarvam_fn is called when detect gave another language
NeedsTranslate(text_query, detected) ==
  NeedsDetect(text_query) /\ detected \notin {"en", "LangDetectException"}

DescAnswers(image_input) ==
  IF InputTruthy(image_input) /\ searcher.gemini
  THEN DescResponses ELSE {NoDescResponse}

DetectAnswers(text_query) ==
  IF NeedsDetect(text_query) THEN Detected ELSE {"en"}

TranslateAnswers(text_query, detected) ==
  IF NeedsTranslate(text_query, detected)
  THEN TranslateResponses ELSE {NoTranslateResponse}

\* an ending that has already cleared the label's embedding_only folder
EndsClearing(w, call, to) ==
  /\ loc' = [loc EXCEPT ![w] = call]
  /\ pc' = [pc EXCEPT ![w] = to]
  /\ dirs' = WriteFolder(dirs, EmbFolder(safe_query_of(call.fusion.label)), {})
  /\ UNCHANGED <<jsonFile, written>>

\* lines 319 and 333-335: the call ends without touching the files
Ends(w, call, to) ==
  /\ loc' = [loc EXCEPT ![w] = call]
  /\ pc' = [pc EXCEPT ![w] = to]
  /\ UNCHANGED <<dirs, jsonFile, written>>

\* the call packages its rankings and updates the log
Completes(w, call, to) ==
  /\ loc' = [loc EXCEPT ![w] = call]
  /\ pc' = [pc EXCEPT ![w] = to]
  /\ dirs' = package_dirs(dirs, call)
  /\ jsonFile' = update_json_results(jsonFile, w, call.fusion.label, metadata_of(call))
  /\ written' = DictSet(written, call.fusion.label, metadata_of(call))

\* searcher.search(text_query, image_input, embedding_top_k, rerank_top_k)
\* run to its end by worker w; a raise is not caught by main
Search(w, text_query, image_input, embedding_top_k, rerank_top_k, to) ==
  \E d \in DescAnswers(image_input), l \in DetectAnswers(text_query) :
  \E t \in TranslateAnswers(text_query, l) :
  \E fusion \in {search_signals(flag, searcher.gemini, text_query,
                                image_input, d, l, t)} :
    LET base == [NoCall EXCEPT !.text_query = text_query,
                               !.image_input = image_input,
                               !.rerank_top_k = rerank_top_k,
                               !.desc_resp = d, !.detected = l, !.tr_resp = t,
                               !.fusion = fusion]
    IN IF fusion.raised
       THEN Ends(w, [base EXCEPT !.out = "raised"], "crashed")
       ELSE IF fusion.weighted_embs = <<>>
       THEN Ends(w, [base EXCEPT !.out = "empty_return"], to)
       ELSE \E q \in QueryOutcomes(searcher.collection, embedding_top_k) :
            \E g \in Logits(IF rerank_query_of(fusion) # <<>>
                               /\ searcher.reranker = "loaded"
                            THEN Len(q.points) ELSE 0) :
            \E call \in {search_tail(searcher, base, q, g)} :
               IF call.out = "complete"
               THEN Completes(w, call, to)
               ELSE Ends(w, call, to)

\* ------------------------------------------------------------------------
\* main (lines 403-440)
\* ------------------------------------------------------------------------
Exit == <<101, 120, 105, 116>>                                  \* "exit"
HybridSilver == AJpg \o <<124>> \o SilverRing                   \* "a.jpg|silver ring"
HybridDiamond == AJpg \o <<32, 124, 32>> \o DiamondRing         \* "a.jpg | diamond ring"
HybridNothing == XJpg \o <<124>>                                \* "x.jpg|"

\* what the user types at the prompt
Cmds == {Exit, SoneKaHaar, AJpg, HybridSilver, HybridDiamond, HybridNothing,
         UrlU, VMp3}

\* the command-line arguments --query and --image
CliArgs ==
  {[query |-> q, image |-> i] : q \in {None, GoldRing}, i \in {None, AJpg, XJpg}}

\* the results of process_url and of sarvam_stt
UrlResults == {NoImage, UrlImage}
Transcripts == {None, <<>>, GoldRing}

embedding_top_k_default == 50
rerank_top_k_default == 20

RECURSIVE SplitOnFrom(_, _, _, _)
SplitOnFrom(s, ch, i, cur) ==
  IF i > Len(s) THEN <<cur>>
  ELSE IF s[i] = ch THEN <<cur>> \o SplitOnFrom(s, ch, i + 1, <<>>)
  ELSE SplitOnFrom(s, ch, i + 1, Append(cur, s[i]))

\* str.split(sep) for a one-character separator
SplitOn(s, ch) == SplitOnFrom(s, ch, 1, <<>>)

IsHybrid(cmd) == Contains(<<124>>, cmd)
IsUrl(cmd) == ~IsHybrid(cmd) /\ StartsWith(cmd, Http)
IsFile(cmd) == ~IsHybrid(cmd) /\ ~IsUrl(cmd) /\ cmd \in ExistingFiles
IsAudio(cmd) ==
  Lower(splitext_ext(cmd)) \in
    {<<46, 109, 112, 51>>, <<46, 119, 97, 118>>, <<46, 109, 52, 97>>}
IsQuit(cmd) == cmd = <<>> \/ Lower(cmd) = Exit

Handled == nreq' = nreq + 1 /\ UNCHANGED <<searcher, flag, rr, upd, unit>>

\* a branch of main that calls nothing that writes
Skips(w, why) ==
  /\ loc' = [loc EXCEPT ![w] = [NoCall EXCEPT !.out = why]]
  /\ pc' = [pc EXCEPT ![w] = "returned_loop"]
  /\ UNCHANGED <<dirs, jsonFile, written>>

\* lines 411-412: python test-final.py --query ... --image ...
MainCLI(w) ==
  /\ pc[w] = "start" /\ nreq < MaxRequests
  /\ \E a \in CliArgs :
       /\ Truthy(a.query) \/ Truthy(a.image)
       /\ Search(w, a.query,
                 IF a.image = None THEN NoInput ELSE PathInput(a.image),
                 embedding_top_k_default, rerank_top_k_default, "returned_cli")
  /\ Handled

\* lines 413-414: no arguments, the interactive loop starts
EnterLoop(w) ==
  /\ pc[w] = "start"
  /\ pc' = [pc EXCEPT ![w] = "prompt"]
  /\ UNCHANGED <<loc, searcher, flag, nreq, dirs, jsonFile, written, rr, upd, unit>>

\* line 417
LoopExit(w) ==
  /\ pc[w] = "prompt"
  /\ \E cmd \in Cmds : IsQuit(Strip(cmd))
  /\ pc' = [pc EXCEPT ![w] = "exited"]
  /\ UNCHANGED <<loc, searcher, flag, nreq, dirs, jsonFile, written, rr, upd, unit>>

\* lines 420-423
LoopHybrid(w) ==
  /\ pc[w] = "prompt" /\ nreq < MaxRequests
  /\ \E cmd \in Cmds :
       /\ ~IsQuit(Strip(cmd)) /\ IsHybrid(Strip(cmd))
       /\ LET parts == SplitOn(Strip(cmd), 124)
              img_p == Strip(parts[1])
              txt_q == Strip(parts[2])
          IN Search(w, txt_q,
                    IF img_p \in ExistingFiles THEN PathInput(img_p) ELSE NoInput,
                    embedding_top_k_default, rerank_top_k_default, "returned_loop")
  /\ Handled

\* lines 425-428
LoopUrl(w) ==
  /\ pc[w] = "prompt" /\ nreq < MaxRequests
  /\ \E cmd \in Cmds :
       /\ ~IsQuit(Strip(cmd)) /\ IsUrl(Strip(cmd))
       /\ \E img \in UrlResults :
            IF img # NoImage
            THEN Search(w, None, ImageInput(img),
                        embedding_top_k_default, rerank_top_k_default, "returned_loop")
            ELSE Skips(w, "url_error")
  /\ Handled

\* lines 430-435
LoopAudio(w) ==
  /\ pc[w] = "prompt" /\ nreq < MaxRequests
  /\ \E cmd \in Cmds :
       /\ ~IsQuit(Strip(cmd)) /\ IsFile(Strip(cmd)) /\ IsAudio(Strip(cmd))
       /\ \E text \in Transcripts :
            IF Truthy(text)
            THEN Search(w, text, NoInput,
                        embedding_top_k_default, rerank_top_k_default, "returned_loop")
            ELSE Skips(w, "no_transcript")
  /\ Handled

\* lines 430-431, 436-437
LoopImage(w) ==
  /\ pc[w] = "prompt" /\ nreq < MaxRequests
  /\ \E cmd \in Cmds :
       /\ ~IsQuit(Strip(cmd)) /\ IsFile(Strip(cmd)) /\ ~IsAudio(Strip(cmd))
       /\ Search(w, None, PathInput(Strip(cmd)),
                 embedding_top_k_default, rerank_top_k_default, "returned_loop")
  /\ Handled

\* lines 439-440
LoopText(w) ==
  /\ pc[w] = "prompt" /\ nreq < MaxRequests
  /\ \E cmd \in Cmds :
       /\ ~IsQuit(Strip(cmd)) /\ ~IsHybrid(Strip(cmd)) /\ ~IsUrl(Strip(cmd))
       /\ ~IsFile(Strip(cmd))
       /\ Search(w, Strip(cmd), NoInput,
                 embedding_top_k_default, rerank_top_k_default, "returned_loop")
  /\ Handled

\* search has returned: the loop prompts again (line 415), the command-line
\* run ends
Return(w) ==
  /\ pc[w] \in {"returned_loop", "returned_cli"}
  /\ pc' = [pc EXCEPT ![w] = IF pc[w] = "returned_loop" THEN "prompt" ELSE "exited"]
  /\ loc' = [loc EXCEPT ![w] = NoCall]
  /\ UNCHANGED <<searcher, flag, nreq, dirs, jsonFile, written, rr, upd, unit>>

\* ------------------------------------------------------------------------
\* Specifications
\* ------------------------------------------------------------------------
NoRerankCall ==
  [called |-> FALSE, kind |-> "loaded", query |-> <<>>, candidates |-> <<>>,
   top_k |-> NoTopK, result |-> <<>>, after |-> <<>>]

NoUpdate == [query |-> None, metadata |-> <<>>, all_results |-> EmptyDict]

InitFiles ==
  /\ dirs = [f \in {} |-> {}]
  /\ jsonFile = AbsentFile
  /\ written = EmptyDict

NoUnit == [op |-> "none"]

InitCommon ==
  /\ unit = NoUnit
  /\ loc = [w \in Workers |-> NoCall]
  /\ upd = [w \in Workers |-> NoUpdate]
  /\ searcher \in [reranker : RerankerKinds, gemini : BOOLEAN, collection : BOOLEAN]
  /\ nreq = 0
  /\ rr = NoRerankCall
  /\ InitFiles

\* src/test-final.py run from its main
Init ==
  /\ InitCommon
  /\ flag = "DOTEXT"
  /\ pc = [w \in Workers |-> IF w = "w1" THEN "start" ELSE "off"]

Next ==
  \E w \in Workers :
     \/ MainCLI(w) \/ EnterLoop(w) \/ LoopExit(w) \/ LoopHybrid(w)
     \/ LoopUrl(w) \/ LoopAudio(w) \/ LoopImage(w) \/ LoopText(w) \/ Return(w)

Spec == Init /\ [][Next]_vars

\* src/test-final.py's search with the detect_and_describe of
\* src/test_new.py (re.DOTALL), which can yield a description
InitDescribing ==
  /\ InitCommon
  /\ flag = "DOTALL"
  /\ pc = [w \in Workers |-> IF w = "w1" THEN "start" ELSE "off"]

SpecDescribing == InitDescribing /\ [][Next]_vars

\* ------------------------------------------------------------------------
\* search called directly, with arguments of the caller's choice
\* ------------------------------------------------------------------------
CallTexts == {None, GoldRing, GoldRingT, GoldSilverRing}
CallImages == {NoInput, PathInput(AJpg), ImageInput(UrlImage)}
CallTopKs == {0, 1, rerank_top_k_default}

SearchCall(w) ==
  /\ pc[w] = "ready" /\ nreq < MaxRequests
  /\ \E text_query \in CallTexts, image_input \in CallImages,
        rerank_top_k \in CallTopKs :
       Search(w, text_query, image_input, embedding_top_k_default,
              rerank_top_k, "called")
  /\ Handled

\* the caller has the call's result and may call again
CallReturn(w) ==
  /\ pc[w] = "called"
  /\ pc' = [pc EXCEPT ![w] = "ready"]
  /\ loc' = [loc EXCEPT ![w] = NoCall]
  /\ UNCHANGED <<searcher, flag, nreq, dirs, jsonFile, written, rr, upd, unit>>

NextCall == \E w \in Workers : SearchCall(w) \/ CallReturn(w)

\* a searcher whose construction succeeded: the collection is there
InitCall ==
  /\ unit = NoUnit
  /\ loc = [w \in Workers |-> NoCall]
  /\ upd = [w \in Workers |-> NoUpdate]
  /\ searcher \in [reranker : {"loaded", "dummy"}, gemini : {TRUE},
                    collection : {TRUE}]
  /\ nreq = 0
  /\ rr = NoRerankCall
  /\ InitFiles
  /\ flag = "DOTEXT"
  /\ pc = [w \in Workers |-> IF w = "w1" THEN "ready" ELSE "off"]

SpecCall == InitCall /\ [][NextCall]_vars

\* the same with the detect_and_describe of src/test_new.py (re.DOTALL)
InitCallDescribing ==
  /\ unit = NoUnit
  /\ loc = [w \in Workers |-> NoCall]
  /\ upd = [w \in Workers |-> NoUpdate]
  /\ searcher \in [reranker : {"loaded", "dummy"}, gemini : {TRUE},
                    collection : {TRUE}]
  /\ nreq = 0
  /\ rr = NoRerankCall
  /\ InitFiles
  /\ flag = "DOTALL"
  /\ pc = [w \in Workers |-> IF w = "w1" THEN "ready" ELSE "off"]

SpecCallDescribing == InitCallDescribing /\ [][NextCall]_vars

\* ------------------------------------------------------------------------
\* Reranker.rerank called directly
\* ------------------------------------------------------------------------
MaxRerankCand == 3

\* candidate lists as search builds them, of distinct products
RerankInputs ==
  LET ids == {"P1", "P2", "P3", "P4"}
      sc == <<90, 50, 50, 50>>
      lists == UNION {[1..n -> ids] : n \in 0..Min(MaxRerankCand, 4)}
  IN {embedding_results_of([i \in 1..Len(l) |-> Point(l[i], sc[i])]) :
        l \in {x \in lists : \A i, j \in 1..Len(x) : i # j => x[i] # x[j]}}

RerankQueries == {<<>>, GoldRing}
TopKs == {NoTopK, 0, 1, 2, 5}

RerankCall ==
  /\ ~rr.called
  /\ \E kind \in RerankerKinds, query \in RerankQueries,
        cands \in RerankInputs, top_k \in TopKs :
     \E logit \in Logits(IF kind = "loaded" THEN Len(cands) ELSE 0) :
        LET r == rerank(kind, query, cands, top_k, logit)
        IN rr' = [called |-> TRUE, kind |-> kind, query |-> query,
                  candidates |-> cands, top_k |-> top_k,
                  result |-> r.result, after |-> r.candidates]
  /\ UNCHANGED <<pc, loc, searcher, flag, nreq, dirs, jsonFile, written, upd, unit>>

InitRerank ==
  /\ InitCommon
  /\ flag = "DOTEXT"
  /\ pc = [w \in Workers |-> "off"]

NextRerank == RerankCall

SpecRerank == InitRerank /\ [][NextRerank]_vars

\* ------------------------------------------------------------------------
\* update_json_results called by one worker, or by two at once
\* ------------------------------------------------------------------------
MaxUpdates == 3

UpdateLabels == {GoldRing, SilverRing, AJpg}

\* metadata as search hands it over
MetadataOf(points) ==
  LET c == embedding_results_of(points)
  IN [embedding_only |-> save_results_to_folder(c, "dist", TRUE).saved_items,
      reranked |-> save_results_to_folder(c, "score", FALSE).saved_items]

Metadatas == {MetadataOf(pl) : pl \in PointLists}

\* lines 384-389
UpdateLoad(w) ==
  /\ pc[w] = "idle" /\ nreq < MaxUpdates
  /\ \E query \in UpdateLabels, metadata \in Metadatas :
       /\ upd' = [upd EXCEPT ![w] = [query |-> query, metadata |-> metadata,
                                     all_results |-> json_load(jsonFile)]]
       /\ written' = DictSet(written, query, metadata)
  /\ pc' = [pc EXCEPT ![w] = "loaded"]
  /\ nreq' = nreq + 1
  /\ UNCHANGED <<loc, searcher, flag, dirs, jsonFile, rr, unit>>

\* line 390 and the open of line 391
UpdateOpen(w) ==
  /\ pc[w] = "loaded"
  /\ upd' = [upd EXCEPT ![w].all_results =
               DictSet(upd[w].all_results, upd[w].query, upd[w].metadata)]
  /\ jsonFile' = open_w(jsonFile, w)
  /\ pc' = [pc EXCEPT ![w] = "opened"]
  /\ UNCHANGED <<loc, searcher, flag, nreq, dirs, written, rr, unit>>

\* the dump and close of line 391
UpdateDump(w) ==
  /\ pc[w] = "opened"
  /\ \E intact \in Intactness(jsonFile, w) :
       jsonFile' = json_dump(jsonFile, w, upd[w].all_results, intact)
  /\ upd' = [upd EXCEPT ![w] = NoUpdate]
  /\ pc' = [pc EXCEPT ![w] = "idle"]
  /\ UNCHANGED <<loc, searcher, flag, nreq, dirs, written, rr, unit>>

NextLog == \E w \in Workers : UpdateLoad(w) \/ UpdateOpen(w) \/ UpdateDump(w)

InitLog ==
  /\ InitCommon
  /\ flag = "DOTEXT"
  /\ pc = [w \in Workers |-> IF w = "w1" THEN "idle" ELSE "off"]

SpecLog == InitLog /\ [][NextLog]_vars

InitLogConcurrent ==
  /\ InitCommon
  /\ flag = "DOTEXT"
  /\ pc = [w \in Workers |-> "idle"]

SpecLogConcurrent == InitLogConcurrent /\ [][NextLog]_vars

\* ------------------------------------------------------------------------
\* Methods called on their own
\* ------------------------------------------------------------------------
\* a searcher that is constructed and idle: only unit changes
InitUnit ==
  /\ unit = NoUnit
  /\ loc = [w \in Workers |-> NoCall]
  /\ upd = [w \in Workers |-> NoUpdate]
  /\ searcher = [reranker |-> "loaded", gemini |-> TRUE, collection |-> TRUE]
  /\ nreq = 0
  /\ rr = NoRerankCall
  /\ InitFiles
  /\ flag = "DOTEXT"
  /\ pc = [w \in Workers |-> "off"]

UnitFrame ==
  UNCHANGED <<pc, loc, searcher, flag, nreq, dirs, jsonFile, written, rr, upd>>

\* line 357 applied to a label.  The labels: every string of at most
\* MaxLabelLen characters over G o 2 _ - ! . / space and tab
MaxLabelLen == 4

LabelChars == {71, 111, 50, 95, 45, 33, 46, 47, 32, 9}

Labels == UNION {[1..n -> LabelChars] : n \in 0..MaxLabelLen}

LabelCall ==
  /\ unit.op = "none"
  /\ \E label \in Labels :
       unit' = [op |-> "safe_query", label |-> label,
                safe_query |-> safe_query_of(label)]
  /\ UnitFrame

SpecLabel == InitUnit /\ [][LabelCall]_vars

\* LanguageHandler.process_query applied to a text, and applied again to
\* what it returned, with one detector and one translation callback: a
\* text routed twice gets the same answers both times
RouteTexts == Texts \ {<<>>}

RouteResponses ==
  TranslateResponses \cup
  {[kind |-> "json", has_key |-> TRUE, translated_text |-> t] :
     t \in {GoldenNecklace, PlainChain, MotiMala}}

RouteAnswers(text, detected) ==
  IF NeedsTranslate(text, detected) THEN RouteResponses ELSE {NoTranslateResponse}

RouteCall ==
  /\ unit.op = "none"
  /\ \E text \in RouteTexts :
     \E l \in DetectAnswers(text) :
     \E t \in RouteAnswers(text, l) :
     \E routed \in {process_query(text, l, sarvam_translate(text, t))} :
     \E l2 \in (IF routed = None THEN {"en"}
                ELSE IF routed = text THEN {l} ELSE DetectAnswers(routed)) :
     \E t2 \in (IF routed = None THEN {NoTranslateResponse}
                ELSE IF routed = text THEN {t} ELSE RouteAnswers(routed, l2)) :
        unit' = [op |-> "process_query", text |-> text,
                 detected |-> l, tr_resp |-> t,
                 detect_called |-> NeedsDetect(text),
                 translate_called |-> NeedsTranslate(text, l),
                 routed |-> routed,
                 detected2 |-> l2, tr_resp2 |-> t2,
                 again |-> IF routed = None THEN None
                           ELSE process_query(routed, l2,
                                              sarvam_translate(routed, t2))]
  /\ UnitFrame

SpecRoute == InitUnit /\ [][RouteCall]_vars

\* LanguageHandler.correct_english_typos applied to a text of at most
\* MaxTokens tokens: exact terms in three casings, a misspelt term, a
\* truncated term and a word outside the vocabulary
MaxTokens == 3

Tokens ==
  { <<103, 111, 108, 100>>,             \* "gold"
    <<71, 79, 76, 68>>,                 \* "GOLD"
    <<103, 111, 108, 108, 100>>,        \* "golld"
    <<115, 116, 117, 100>>,             \* "stud"
    <<120, 121, 122>> }                 \* "xyz"

TokenTexts == {Join(ws) : ws \in UNION {[1..n -> Tokens] : n \in 0..MaxTokens}}

TyposCall ==
  /\ unit.op = "none"
  /\ \E text \in TokenTexts :
       unit' = [op |-> "correct_english_typos", text |-> text,
                corrected |-> correct_english_typos(text)]
  /\ UnitFrame

SpecTypos == InitUnit /\ [][TyposCall]_vars

\* Reranker.rerank and compute_score over lists longer than a batch
MaxPairs == 33

\* n candidates in retrieval order; candidate e (if any) has no
\* semantic_description
LongCandidates(n, e) ==
  [i \in 1..n |->
     [product_id |-> i, path |-> P1Path,
      semantic_description |-> IF i = e THEN <<>> ELSE GoldRing,
      initial_score |-> 100 - i, rerank_score |-> NoScore]]

\* lines 70-74 of src/reranking.py
PairsOf(query, candidates) ==
  [i \in 1..Len(candidates) |-> <<query, candidates[i].semantic_description>>]

\* the cross-encoder's outputs for n pairs: two patterns of period 5 and 3
LongLogits(n) ==
  {[i \in 1..n |-> (i % 5) - 2], [i \in 1..n |-> 1 - (i % 3)]}

ScoreCall ==
  /\ unit.op = "none"
  /\ \E kind \in RerankerKinds, n \in 0..MaxPairs :
     \E e \in 0..n, logit \in LongLogits(n) :
     \E r \in {rerank(kind, GoldRing, LongCandidates(n, e), NoTopK, logit)} :
        unit' = [op |-> "rerank", kind |-> kind,
                 candidates |-> LongCandidates(n, e),
                 pairs |-> PairsOf(GoldRing, LongCandidates(n, e)),
                 logit |-> logit,
                 scores |-> compute_score(kind,
                                          PairsOf(GoldRing, LongCandidates(n, e)),
                                          logit),
                 result |-> r.result, after |-> r.candidates]
  /\ UnitFrame

SpecScore == InitUnit /\ [][ScoreCall]_vars

\* save_results_to_folder called on its own
MaxResults == 3

\* results as search hands them over: P1 copies, P2's asset is missing,
\* P4's asset exists and cannot be copied; the first two are scored by the
\* reranker, the others are not
PackagedResult(id) ==
  [product_id |-> id,
   path |-> IF id = "P1" THEN P1Path ELSE IF id = "P2" THEN P2Path
            ELSE IF id = "P3" THEN P3Path ELSE P4Path,
   semantic_description |-> <<>>,
   initial_score |-> IF id \in {"P1", "P4"} THEN 90 ELSE 50,
   rerank_score |-> IF id = "P1" THEN 2 ELSE IF id = "P2" THEN -1 ELSE NoScore]

PackagedLists ==
  UNION {[1..n -> {PackagedResult(id) : id \in {"P1", "P2", "P3", "P4"}}] :
           n \in 0..MaxResults}

PackageCall ==
  /\ unit.op = "none"
  /\ \E results \in PackagedLists, force_initial \in BOOLEAN :
     \E saved \in {save_results_to_folder(results,
                       IF force_initial THEN "dist" ELSE "score", force_initial)} :
        unit' = [op |-> "save_results_to_folder", results |-> results,
                 force_initial |-> force_initial,
                 saved_items |-> saved.saved_items, files |-> saved.files]
  /\ UnitFrame

SpecPackage == InitUnit /\ [][PackageCall]_vars

\* ------------------------------------------------------------------------
\* The blocking calls to external services
\* ------------------------------------------------------------------------
\* requests' timeout=None and generate_content without request options:
\* the call waits for as long as the service stays silent
NoTimeout == 0

\* the timeout each call site passes, in seconds
TimeoutOf(call) ==
  IF call = "url_page" THEN 5            \* line 395, timeout=5
  ELSE NoTimeout                         \* lines 155, 177, 198, 399

\* the external calls a command makes, in order, while every one of them
\* answers: process_url (lines 395, 399), sarvam_stt (line 177),
\* detect_and_describe (line 198), sarvam_translate (line 155)
CallsOf(kind, gemini) ==
  LET caption == IF gemini THEN <<"caption">> ELSE <<>>
  IN IF kind = "text" THEN <<"translate">>
     ELSE IF kind = "audio" THEN <<"stt", "translate">>
     ELSE IF kind = "url" THEN <<"url_page", "url_image">> \o caption
     ELSE IF kind = "image" THEN caption
     ELSE caption \o <<"translate">>      \* hybrid

CommandKinds == {"text", "audio", "url", "image", "hybrid"}

\* a service answers, fails (the call raises at once), or stays silent
Behaviours == {"answers", "raises", "silent"}

\* the calls whose failure ends the command without a search: sarvam_stt
\* returns None (line 435), process_url returns None (line 427)
EndsCommand(call) == call \in {"stt", "url_page", "url_image"}

InitServices ==
  /\ unit = [op |-> "idle", kind |-> "none", call |-> "none",
             timeout |-> NoTimeout, behaviour |-> "none", rest |-> <<>>,
             log |-> <<>>]
  /\ loc = [w \in Workers |-> NoCall]
  /\ upd = [w \in Workers |-> NoUpdate]
  /\ searcher \in [reranker : {"loaded"}, gemini : BOOLEAN, collection : {TRUE}]
  /\ nreq = 0
  /\ rr = NoRerankCall
  /\ InitFiles
  /\ flag = "DOTEXT"
  /\ pc = [w \in Workers |-> IF w = "w1" THEN "prompt" ELSE "off"]

ServiceFrame ==
  UNCHANGED <<loc, searcher, flag, dirs, jsonFile, written, rr, upd>>

\* a command is read and its handling starts
StartCommand(w) ==
  /\ pc[w] = "prompt" /\ nreq < MaxRequests
  /\ \E kind \in CommandKinds :
       unit' = [unit EXCEPT !.op = "command", !.kind = kind,
                            !.rest = CallsOf(kind, searcher.gemini),
                            !.log = <<>>]
  /\ pc' = [pc EXCEPT ![w] = "serving"]
  /\ nreq' = nreq + 1
  /\ ServiceFrame

\* the next external call is issued and the thread blocks in it
SendRequest(w) ==
  /\ pc[w] = "serving" /\ unit.rest # <<>>
  /\ \E b \in Behaviours :
       unit' = [unit EXCEPT !.call = Head(unit.rest),
                            !.timeout = TimeoutOf(Head(unit.rest)),
                            !.behaviour = b]
  /\ pc' = [pc EXCEPT ![w] = "waiting"]
  /\ UNCHANGED nreq /\ ServiceFrame

\* what follows the end of a call: the fallback of its except clause when
\* it failed
AfterCall(outcome) ==
  [unit EXCEPT !.call = "none", !.behaviour = "none", !.timeout = NoTimeout,
               !.log = Append(unit.log, <<unit.call, outcome>>),
               !.rest = IF outcome # "ok" /\ EndsCommand(unit.call)
                        THEN <<>> ELSE Tail(unit.rest)]

\* the service answers or the call raises
Responds(w) ==
  /\ pc[w] = "waiting" /\ unit.behaviour \in {"answers", "raises"}
  /\ unit' = AfterCall(IF unit.behaviour = "answers" THEN "ok" ELSE "failed")
  /\ pc' = [pc EXCEPT ![w] = "serving"]
  /\ UNCHANGED nreq /\ ServiceFrame

\* the service stays silent and the call's timeout expires
TimesOut(w) ==
  /\ pc[w] = "waiting" /\ unit.behaviour = "silent"
  /\ unit.timeout # NoTimeout
  /\ unit' = AfterCall("timed out")
  /\ pc' = [pc EXCEPT ![w] = "serving"]
  /\ UNCHANGED nreq /\ ServiceFrame

\* no call is left: the search runs to its end and the loop prompts again
FinishCommand(w) ==
  /\ pc[w] = "serving" /\ unit.rest = <<>>
  /\ unit' = [unit EXCEPT !.op = "idle", !.kind = "none", !.log = <<>>]
  /\ pc' = [pc EXCEPT ![w] = "prompt"]
  /\ UNCHANGED nreq /\ ServiceFrame

NextServices ==
  \E w \in Workers :
     \/ StartCommand(w) \/ SendRequest(w) \/ Responds(w) \/ TimesOut(w)
     \/ FinishCommand(w)

SpecServices == InitServices /\ [][NextServices]_vars

\* ------------------------------------------------------------------------
\* Properties
\* ------------------------------------------------------------------------
Active == {w \in Workers : pc[w] # "off"}

\* worker w's last command ran search(...)
Called(w) == loc[w].out \in {"raised", "empty_return", "collection_not_found_msg", "complete"}

\* search built a signal set from an image, a caption and user text
ThreeInputs(w) ==
  /\ Called(w) /\ ~loc[w].fusion.raised
  /\ InputTruthy(loc[w].image_input)
  /\ Truthy(loc[w].fusion.ai_desc)
  /\ Truthy(loc[w].text_query)

\* the caption's signal is not in the fused set, and the fused vector is the
\* fusion of the image and text signals alone
CaptionOmitted(w) ==
  LET f == loc[w].fusion
  IN /\ \A i \in 1..Len(f.weighted_embs) : f.weighted_embs[i].prov # "ai_desc"
     /\ f.final_emb =
          fuse(SelectSeq(f.weighted_embs, LAMBDA sg : sg.prov \in {"image", "text"}))

C2_ConcurrentUpdatesKeepAllLabels ==
  (\A w \in Active : pc[w] = "idle")
  => \A label \in DOMAIN written :
        jsonFile.valid /\ label \in DOMAIN jsonFile.obj

\* C3: a search for which no signal can be produced (no usable text and no
\* usable image) ends by signalling an EmptySignalSet error to its caller.
C3_EmptySignalSetIsAnError ==
  \A w \in Active :
     ( /\ Called(w)
       /\ ~Truthy(loc[w].text_query)
       /\ ~InputTruthy(loc[w].image_input) )
     => loc[w].out = "EmptySignalSet_error"

\* search reached query_points
Retrieved(w) ==
  Called(w) /\ ~loc[w].fusion.raised /\ loc[w].fusion.weighted_embs # <<>>

\* C4: 'collection not found, run indexing first' is reported exactly when
\* the collection does not exist, search then returns to main (the loop
\* prompts again), and no other retrieval failure is reported that way.
C4_NotFoundMessageOnlyForMissingCollection ==
  \A w \in Active :
     /\ (Retrieved(w) /\ ~searcher.collection)
          => /\ loc[w].out = "collection_not_found_msg"
             /\ pc[w] \in {"returned_loop", "returned_cli"}
     /\ loc[w].out = "collection_not_found_msg" => ~searcher.collection

\* a step in which a search of w aborts on an empty signal set or on a
\* failed retrieval
Aborts(w) ==
  /\ pc[w] \in {"start", "prompt"}
  /\ pc'[w] \in {"returned_loop", "returned_cli"}
  /\ loc'[w].out \in {"empty_return", "collection_not_found_msg"}

\* C5: a search that aborts because the signal set is empty or because
\* retrieval fails leaves search_results.json and every embedding_only/ and
\* reranked/ directory as they were.
C5_AbortLeavesFilesUntouched ==
  [][\A w \in Workers : Aborts(w) => dirs' = dirs /\ jsonFile' = jsonFile]_vars

\* a search has aborted while the log and the folders of an earlier search
\* are on disk
C5_Witness ==
  \E w \in Active :
     /\ loc[w].out \in {"empty_return", "collection_not_found_msg"}
     /\ jsonFile.valid /\ DOMAIN jsonFile.obj # {}
     /\ DOMAIN dirs # {}

\* candidates[:top_k] as Python slices it (None: no limit)
Slice(candidates, top_k) ==
  IF top_k = NoTopK THEN candidates ELSE Take(candidates, top_k)

\* C6: rerank called with an empty query text returns exactly
\* candidates[:top_k] in input order, without scoring or reordering.
C6_EmptyQueryIsPassthrough ==
  (rr.called /\ rr.query = <<>>)
  => /\ rr.result = Slice(rr.candidates, rr.top_k)
     /\ rr.after = rr.candidates

\* C7: when the scoring model failed to load, or the dummy Reranker is in
\* use, rerank returns the input candidates in input order truncated to
\* top_k, with no rerank_score attached.
C7_UnloadedRerankerIsPassthrough ==
  (rr.called /\ rr.kind \in {"load_failed", "dummy"})
  => /\ rr.result = Slice(rr.candidates, rr.top_k)
     /\ rr.after = rr.candidates
     /\ \A i \in 1..Len(rr.result) : rr.result[i].rerank_score = NoScore

\* position of a product in the input list of the rerank call
InputIndex(id) == CHOOSE i \in 1..Len(rr.candidates) : rr.candidates[i].product_id = id

\* C8: with the model loaded and a non-empty candidate list, rerank returns
\* candidates in descending order of rerank_score, and candidates of equal
\* rerank_score in their relative order of the input list.
C8_RerankSortsDescendingStable ==
  (rr.called /\ rr.kind = "loaded" /\ rr.candidates # <<>>)
  => /\ \A i \in 1..Len(rr.result) :
          \E k \in 1..Len(rr.candidates) :
             /\ rr.result[i].product_id = rr.candidates[k].product_id
             /\ rr.result[i] = rr.after[k]
             /\ rr.result[i].rerank_score # NoScore
     /\ \A i, j \in 1..Len(rr.result) :
          i < j =>
            /\ rr.result[i].rerank_score >= rr.result[j].rerank_score
            /\ rr.result[i].rerank_score = rr.result[j].rerank_score
                 => InputIndex(rr.result[i].product_id)
                      < InputIndex(rr.result[j].product_id)

\* a scored call that moved the first candidate down and left a tie
C8_Witness ==
  /\ rr.called /\ rr.kind = "loaded" /\ Len(rr.result) >= 3
  /\ rr.result[1].product_id # rr.candidates[1].product_id
  /\ rr.result[1].rerank_score = rr.result[2].rerank_score

\* the ranking stored for a complete search of w
Entry(w) == jsonFile.obj[loc[w].fusion.label]

\* C9: in a successful search the persisted embedding_only ranking holds the
\* retrieved candidates in retrieval order, each with its initial_score,
\* although rerank attached rerank_score to the same objects; the reranked
\* ranking carries rerank_score where present and initial_score otherwise.
C9_EmbeddingRankingUnaffectedByRerank ==
  \A w \in Active :
     loc[w].out = "complete" =>
       LET c == loc[w]
       IN /\ Len(Entry(w).embedding_only) = Len(c.retrieved)
          /\ \A i \in 1..Len(c.retrieved) :
               /\ Entry(w).embedding_only[i].rank = i
               /\ Entry(w).embedding_only[i].product_id = c.retrieved[i].product_id
               /\ Entry(w).embedding_only[i].score = c.retrieved[i].initial_score
          /\ \A f \in dirs[EmbFolder(c.safe_query)] :
               /\ f.rank \in 1..Len(c.retrieved)
               /\ f.product_id = c.retrieved[f.rank].product_id
               /\ f.score = c.retrieved[f.rank].initial_score
          /\ Len(Entry(w).reranked) = Len(c.reranked_results)
          /\ \A i \in 1..Len(c.reranked_results) :
               /\ Entry(w).reranked[i].product_id = c.reranked_results[i].product_id
               /\ Entry(w).reranked[i].score =
                    IF c.reranked_results[i].rerank_score # NoScore
                    THEN c.reranked_results[i].rerank_score
                    ELSE c.reranked_results[i].initial_score

\* a complete search whose rerank scored the candidates and changed the order
C9_Witness ==
  \E w \in Active :
     /\ loc[w].out = "complete" /\ Len(loc[w].retrieved) = 2
     /\ loc[w].embedding_results[1].rerank_score # NoScore
     /\ loc[w].reranked_results[1].product_id # loc[w].retrieved[1].product_id
     /\ dirs[EmbFolder(loc[w].safe_query)] # {}

\* C10: after any sequence of updates the log holds, for every label written
\* so far, the metadata last written for it.
C10_UpdateKeepsOtherLabels ==
  (\A w \in Active : pc[w] = "idle")
  => \A label \in DOMAIN written :
        /\ jsonFile.valid
        /\ label \in DOMAIN jsonFile.obj
        /\ jsonFile.obj[label] = written[label]

\* three updates, one of them of a label written before, and two labels in
\* the log
C10_Witness ==
  /\ \A w \in Active : pc[w] = "idle"
  /\ nreq = 3
  /\ Cardinality(DOMAIN written) = 2
  /\ DOMAIN jsonFile.obj = DOMAIN written

\* C11: the key under which a complete search's rankings are stored in
\* search_results.json is the normalized label, the string that names the
\* label's output directory.
C11_LogKeyIsNormalizedLabel ==
  \A w \in Active :
     loc[w].out = "complete" =>
       /\ loc[w].safe_query \in DOMAIN jsonFile.obj
       /\ jsonFile.obj[loc[w].safe_query] = metadata_of(loc[w])

\* the maximal runs of whitespace in s: the positions where one starts
SpaceRuns(s) ==
  {i \in 1..Len(s) : IsSpace(s[i]) /\ (i = 1 \/ ~IsSpace(s[i - 1]))}

Count(s, c) == Cardinality({i \in 1..Len(s) : s[i] = c})

\* C12: the label derived from any input label consists only of lowercase
\* word characters, hyphens and underscores (no path separator, no '.', no
\* control or whitespace character), and every run of whitespace of the
\* input has become a single underscore.
C12_DerivedLabelIsSafe ==
  unit.op = "safe_query" =>
    /\ \A i \in 1..Len(unit.safe_query) :
          \/ IsLowerCh(unit.safe_query[i]) \/ IsDigit(unit.safe_query[i])
          \/ unit.safe_query[i] \in {45, 95}
    /\ Count(unit.safe_query, 95)
         <= Count(unit.label, 95) + Cardinality(SpaceRuns(unit.label))

\* C13: language routing is idempotent: with one detector and one
\* translation callback, process_query applied to what process_query
\* returned gives that text again, on the normalize path and on the
\* translate path.
C13_RoutingIsIdempotent ==
  (unit.op = "process_query" /\ unit.routed # None) => unit.again = unit.routed

\* C14: in process_query, if a token of the text matches the vocabulary at
\* 0.7 or the text is shorter than 5 characters, neither language detection
\* nor the translation callback is invoked and the result is the locally
\* normalized text.
C14_ForcedTextSkipsServices ==
  ( /\ unit.op = "process_query"
    /\ (force_english(unit.text) \/ Len(unit.text) < 5) )
  => /\ ~unit.detect_called
     /\ ~unit.translate_called
     /\ unit.routed = correct_english_typos(unit.text)

\* a text of five characters or more routed locally because a token matched,
\* and changed by the normalization
C14_Witness ==
  /\ unit.op = "process_query"
  /\ force_english(unit.text) /\ Len(unit.text) >= 5
  /\ unit.routed # unit.text

\* the vocabulary terms within 0.8 of a lower-cased token
CloseTerms(token) ==
  {k \in 1..Len(JEWELRY_VOCAB) :
     RatioAtLeast(Ratio(JEWELRY_VOCAB[k], Lower(token)), 8)}

\* C15 as stated: every token that matches the vocabulary at 0.8 is replaced
\* by the canonical term in one normalized case, so that tokens matching
\* the same term ('gold', 'GOLD', 'golld') give the same output; other
\* tokens pass through unchanged; token count and order are preserved.
C15_MatchingTokensGetOneCanonicalForm ==
  unit.op = "correct_english_typos" =>
    LET words == Split(unit.text)
        out == Split(unit.corrected)
    IN /\ Len(out) = Len(words)
       /\ \A i \in 1..Len(words) :
            CloseTerms(words[i]) = {} => out[i] = words[i]
       /\ \A i, j \in 1..Len(words) :
            ( /\ CloseTerms(words[i]) # {}
              /\ get_close_matches(Lower(words[i]), JEWELRY_VOCAB, 8)
                   = get_close_matches(Lower(words[j]), JEWELRY_VOCAB, 8) )
            => out[i] = out[j]

\* C15 amended: a token whose lower-cased form is a vocabulary term passes
\* through with its own casing; a token that matches a term at 0.8 without
\* being equal to it is replaced by that term in title case; a token that
\* matches no term passes through unchanged; token count and order are
\* preserved.
C15_TyposReplacedExactTermsKept ==
  unit.op = "correct_english_typos" =>
    LET words == Split(unit.text)
        out == Split(unit.corrected)
    IN /\ Len(out) = Len(words)
       /\ \A i \in 1..Len(words) :
            IF \E k \in 1..Len(JEWELRY_VOCAB) : JEWELRY_VOCAB[k] = Lower(words[i])
            THEN out[i] = words[i]
            ELSE IF CloseTerms(words[i]) = {}
            THEN out[i] = words[i]
            ELSE \E k \in CloseTerms(words[i]) :
                    /\ out[i] = Title(JEWELRY_VOCAB[k])
                    /\ \A k2 \in CloseTerms(words[i]) :
                          Ratio(JEWELRY_VOCAB[k2], Lower(words[i]))[1]
                            * Ratio(JEWELRY_VOCAB[k], Lower(words[i]))[2]
                          <= Ratio(JEWELRY_VOCAB[k], Lower(words[i]))[1]
                               * Ratio(JEWELRY_VOCAB[k2], Lower(words[i]))[2]

\* a text with an exact term in upper case, a misspelt term and a word
\* outside the vocabulary
C15_Witness ==
  /\ unit.op = "correct_english_typos"
  /\ Len(Split(unit.text)) = 3
  /\ unit.corrected =
       <<71, 79, 76, 68, 32, 71, 111, 108, 100, 32, 120, 121, 122>>

\* the translation service failed: the call raised, or the response carries
\* no translation, or a null one
TranslationFailed(resp) ==
  resp.kind = "exception" \/ ~resp.has_key \/ resp.translated_text = None

\* C16: a failure of the translation service (exception, response without a
\* translation, null translated_text) never raises out of
\* sarvam_translate/process_query and yields the original text as the
\* routed text.
C16_TranslationFailureYieldsOriginalText ==
  ( /\ unit.op = "process_query"
    /\ unit.translate_called
    /\ TranslationFailed(unit.tr_resp) )
  => unit.routed = unit.text

\* a search of w that handed an image to detect_and_describe
Described(w) ==
  Called(w) /\ ~loc[w].fusion.raised /\ InputTruthy(loc[w].image_input)

\* C17: when the captioning call succeeds and its response holds well-formed
\* JSON with a bbox and a description, search embeds the cropped image and
\* has that description for fusion and conflict detection.
C17_CaptionSuccessCropsAndDescribes ==
  \A w \in Active :
     ( /\ Described(w) /\ searcher.gemini
       /\ loc[w].desc_resp.kind = "json"
       /\ loc[w].desc_resp.bbox = "ok"
       /\ loc[w].desc_resp.description # None )
     => /\ loc[w].fusion.embedded.cropped
        /\ loc[w].fusion.ai_desc = loc[w].desc_resp.description

\* the captioning step failed: no model configured, the call raised, the
\* response holds no JSON object that parses, or its bbox is malformed
CaptionFailed(w) ==
  \/ ~searcher.gemini
  \/ loc[w].desc_resp.kind \in {"exception", "no_json"}
  \/ loc[w].desc_resp.bbox = "bad"

\* C18: any failure of the captioning step makes detect_and_describe return
\* the original uncropped image with description None without raising;
\* search then proceeds with the image signal and no AI-description signal.
C18_CaptionFailureFallsBackToImage ==
  \A w \in Active :
     ( /\ Called(w) /\ InputTruthy(loc[w].image_input)
       /\ ~open_fails(loc[w].image_input)
       /\ CaptionFailed(w) )
     => /\ ~loc[w].fusion.raised
        /\ loc[w].fusion.embedded \in {[id |-> "file", cropped |-> FALSE], UrlImage}
        /\ loc[w].fusion.ai_desc = None
        /\ loc[w].fusion.weighted_embs # <<>>
        /\ loc[w].fusion.weighted_embs[1] =
             Signal("image", get_image_embedding(loc[w].fusion.embedded), 2)
        /\ \A i \in 1..Len(loc[w].fusion.weighted_embs) :
              loc[w].fusion.weighted_embs[i].prov # "ai_desc"
        /\ loc[w].out # "raised"

\* a search whose caption response had a description and a malformed bbox,
\* and which went on to retrieval with the image signal alone
C18_Witness ==
  \E w \in Active :
     /\ Described(w) /\ searcher.gemini
     /\ loc[w].desc_resp.kind = "json" /\ loc[w].desc_resp.bbox = "bad"
     /\ loc[w].desc_resp.description # None
     /\ Len(loc[w].fusion.weighted_embs) = 1
     /\ loc[w].out = "complete"

\* the weighted sum of a signal set, without the division by the total
SumOf(w) == WeightedSum(loc[w].fusion.weighted_embs, 1)

C20_EveryExternalCallHasATimeout ==
  \A w \in Active :
     (pc[w] = "waiting" /\ unit.behaviour = "silent") => unit.timeout # NoTimeout

\* the results whose asset save_results_to_folder can copy
Copyable(results) ==
  {i \in 1..Len(results) : results[i].path \in ExistingAssets \ UncopyableAssets}

\* C21: in save_results_to_folder a result whose asset is missing or cannot
\* be copied is skipped for copying only: every other result is still
\* copied under its own rank, and the returned metadata has one entry per
\* input result, in input order, each with its rank, product and path.
C21_FailedCopyIsSkippedNotFatal ==
  unit.op = "save_results_to_folder" =>
    /\ Len(unit.saved_items) = Len(unit.results)
    /\ \A i \in 1..Len(unit.results) :
         /\ unit.saved_items[i].rank = i
         /\ unit.saved_items[i].product_id = unit.results[i].product_id
         /\ unit.saved_items[i].path = unit.results[i].path
    /\ {f.rank : f \in unit.files} = Copyable(unit.results)
    /\ \A f \in unit.files : f.product_id = unit.results[f.rank].product_id

\* a missing asset first, an asset that cannot be copied second, and a
\* result behind them that was copied
C21_Witness ==
  /\ unit.op = "save_results_to_folder" /\ Len(unit.results) = 3
  /\ unit.results[1].path \notin ExistingAssets
  /\ unit.results[2].path \in UncopyableAssets
  /\ \E f \in unit.files : f.rank = 3
  /\ Len(unit.saved_items) = 3

\* C22: every search that completes produces both views together: the log
\* entry of its label has an embedding_only list and a reranked list, the
\* reranked list has at most rerank_top_k entries, and every product in it
\* is one of the candidates of the same request's embedding_only list.
C22_BothViewsReflectOneRequest ==
  \A w \in Active :
     loc[w].out = "complete" =>
       /\ jsonFile.valid /\ loc[w].fusion.label \in DOMAIN jsonFile.obj
       /\ Entry(w) = metadata_of(loc[w])
       /\ Len(Entry(w).reranked) <= loc[w].rerank_top_k
       /\ \A i \in 1..Len(Entry(w).reranked) :
            \E k \in 1..Len(Entry(w).embedding_only) :
               Entry(w).reranked[i].product_id = Entry(w).embedding_only[k].product_id

\* the weight (in halves) of the signal of the given provenance in the
\* signal set of w's call; 0 when there is none
WeightOf(w, prov) ==
  LET sigs == SelectSeq(loc[w].fusion.weighted_embs, LAMBDA sg : sg.prov = prov)
  IN IF sigs = <<>> THEN 0 ELSE sigs[1].weight2

HasSignal(w, prov) ==
  \E i \in 1..Len(loc[w].fusion.weighted_embs) :
     loc[w].fusion.weighted_embs[i].prov = prov

RankedDescending(items) ==
  /\ \A i \in 1..Len(items) : items[i].rank = i
  /\ \A i \in 1..(Len(items) - 1) : items[i].score >= items[i + 1].score

\* C24: in each persisted ranking (embedding_only and reranked) of a
\* successful search the rank fields are 1, 2, ..., n in list order and the
\* stamped scores are non-increasing as rank increases; the files of the two
\* directories carry the rank and score of the entry they were copied for.
C24_RanksAreDenseAndScoresDescend ==
  \A w \in Active :
     loc[w].out = "complete" =>
       /\ RankedDescending(Entry(w).embedding_only)
       /\ RankedDescending(Entry(w).reranked)
       /\ \A f \in dirs[EmbFolder(loc[w].safe_query)] :
            /\ f.rank \in 1..Len(Entry(w).embedding_only)
            /\ f.score = Entry(w).embedding_only[f.rank].score
       /\ \A f \in dirs[RankFolder(loc[w].safe_query)] :
            /\ f.rank \in 1..Len(Entry(w).reranked)
            /\ f.score = Entry(w).reranked[f.rank].score

\* a complete search whose reranker put the second retrieved candidate
\* first, with distinct scores
C24_Witness ==
  \E w \in Active :
     /\ loc[w].out = "complete"
     /\ Len(Entry(w).reranked) = 2
     /\ Entry(w).reranked[1].score > Entry(w).reranked[2].score
     /\ Entry(w).reranked[1].product_id = Entry(w).embedding_only[2].product_id
     /\ Entry(w).embedding_only[1].score > Entry(w).embedding_only[2].score

\* every file of the folder was copied for an entry of the ranking
ArtifactsOf(folder, ranking) ==
  \A f \in dirs[folder] :
     /\ f.rank \in 1..Len(ranking)
     /\ f.product_id = ranking[f.rank].product_id
     /\ f.score = ranking[f.rank].score

\* C25: after any sequence of successful searches, for every label key of
\* search_results.json the label's embedding_only/ and reranked/ directories
\* hold only artifacts of the rankings the log records for that key: no
\* request with another label key has overwritten them.
C25_DirectoriesMatchTheLogPerLabel ==
  jsonFile.valid =>
    \A label \in DOMAIN jsonFile.obj :
       /\ ArtifactsOf(EmbFolder(safe_query_of(label)), jsonFile.obj[label].embedding_only)
       /\ ArtifactsOf(RankFolder(safe_query_of(label)), jsonFile.obj[label].reranked)

\* C26: with the model loaded, compute_score returns exactly one score per
\* pair, score i being the model's output for pair i, for pair lists shorter
\* than, equal to and longer than the batch size (16) and not a multiple of
\* it; every candidate contributes one pair, also one without a
\* semantic_description, so rerank attaches a score to every candidate.
C26_OneScorePerPairInOrder ==
  (unit.op = "rerank" /\ unit.kind = "loaded") =>
    /\ Len(unit.pairs) = Len(unit.candidates)
    /\ Len(unit.scores) = Len(unit.pairs)
    /\ \A i \in 1..Len(unit.pairs) : unit.scores[i] = unit.logit[i]
    /\ Len(unit.after) = Len(unit.candidates)
    /\ \A i \in 1..Len(unit.candidates) :
         /\ unit.after[i].product_id = unit.candidates[i].product_id
         /\ unit.after[i].rerank_score = unit.logit[i]
         /\ unit.after[i].rerank_score # NoScore

\* more than two batches, the last one partial, and a candidate without a
\* description in the second batch
C26_Witness ==
  /\ unit.op = "rerank" /\ unit.kind = "loaded"
  /\ Len(unit.pairs) > 2 * batch_size
  /\ Len(unit.pairs) % batch_size # 0
  /\ unit.pairs[batch_size + 1][2] = <<>>
  /\ Len(unit.scores) = Len(unit.pairs)

\* C27: for every candidate list of length n and every integer top_k >= 0,
\* rerank returns exactly min(top_k, n) candidates, on the scoring path and
\* on the passthrough paths alike; top_k = 0 yields an empty list.
C27_RerankReturnsMinTopKAndN ==
  (rr.called /\ rr.top_k # NoTopK /\ rr.top_k >= 0)
  => Len(rr.result) = Min(rr.top_k, Len(rr.candidates))

\* the signal set of w's call with its signals pointing along ways
Redirected(w, ways) ==
  [i \in 1..Len(loc[w].fusion.weighted_embs) |->
     [loc[w].fusion.weighted_embs[i] EXCEPT !.emb = UnitVecs[ways[i]]]]

\* twice the sum of the weights of the signals other than the user text
OtherWeights(w) ==
  TotalWeight(SelectSeq(loc[w].fusion.weighted_embs, LAMBDA sg : sg.prov # "text"), 1)

\* C28: in every signal set search can build every signal is a unit vector
\* and the user-text weight, when there is user text, strictly exceeds the
\* sum of the other weights; whatever the directions of the signals the
\* weighted sum is not the zero vector, and the fused query is not nan.
C28_WeightedSumIsNeverZero ==
  \A w \in Active :
     Retrieved(w) =>
       /\ \A i \in 1..Len(loc[w].fusion.weighted_embs) :
            /\ loc[w].fusion.weighted_embs[i].emb \in Elems(UnitVecs)
            /\ loc[w].fusion.weighted_embs[i].weight2 > 0
       /\ HasSignal(w, "text") => WeightOf(w, "text") > OtherWeights(w)
       /\ \A ways \in [1..Len(loc[w].fusion.weighted_embs) -> 1..Len(UnitVecs)] :
            WeightedSum(Redirected(w, ways), 1) # <<0, 0>>
       /\ SumOf(w) # <<0, 0>>
       /\ loc[w].fusion.final_emb # NaNVec

\* image, caption and user text fused, the text weighing more than the
\* image and the caption together
C28_Witness ==
  \E w \in Active :
     /\ Retrieved(w) /\ Len(loc[w].fusion.weighted_embs) = 3
     /\ WeightOf(w, "text") = 6 /\ OtherWeights(w) = 3
     /\ loc[w].fusion.final_emb # NaNVec

====
